---------------------------- MODULE Spec2Model ----------------------------
(* A model of the TODO record store (database.py), its schemas (models.py)  *)
(* and the /todos handlers (main.py).                                        *)
(*                                                                           *)
(* Encoding.  A Python string is a sequence of runs [ch, n] (n copies of the *)
(* character ch, adjacent runs of different characters), so that strings of  *)
(* 200 and 201 characters are ordinary values.  An Optional value is <<>>    *)
(* (None) or <<v>>.  A JSON request body is a function from the field names  *)
(* it carries to Optional values: a field outside its DOMAIN is unset, a     *)
(* field mapped to None is an explicit null.  A timestamp is the number of   *)
(* clock ticks since the process started.                                    *)
EXTENDS Integers, Sequences, FiniteSets, TLC

VARIABLES todos,    \* TodoDatabase._todos: the records, in dict insertion order
          clock,    \* the last value datetime.now() returned
          resp,     \* the last request answered and the response it got
          inflight  \* the call of update a second thread is inside, if any

vars == <<todos, clock, resp, inflight>>

-----------------------------------------------------------------------------
(* Bounds of the model *)

MaxClock == 2      \* the clock is read at most up to this tick

-----------------------------------------------------------------------------
(* Program constants *)

TitleMinLen == 1
TitleMaxLen == 200
DescMaxLen == 1000
PriorityMin == 1
PriorityMax == 5
DefaultPriority == 1

TodoStatus == {"pending", "in_progress", "completed"}
DefaultStatus == "pending"

-----------------------------------------------------------------------------
(* Values *)

None == <<>>
Some(v) == <<v>>

Whitespace == {" "}

Str(c, n) == <<[ch |-> c, n |-> n]>>

RECURSIVE StrLen(_)
StrLen(s) == IF s = <<>> THEN 0 ELSE Head(s).n + StrLen(Tail(s))

RECURSIVE LStrip(_)
LStrip(s) ==
    IF s = <<>> THEN s
    ELSE IF Head(s).ch \in Whitespace THEN LStrip(Tail(s)) ELSE s

RECURSIVE RStrip(_)
RStrip(s) ==
    IF s = <<>> THEN s
    ELSE IF s[Len(s)].ch \in Whitespace THEN RStrip(SubSeq(s, 1, Len(s) - 1)) ELSE s

\* str.strip()
Strip(s) == RStrip(LStrip(s))

Fields == {"title", "description", "status", "priority"}

Has(body, f) == f \in DOMAIN body

-----------------------------------------------------------------------------
(* models.py: the request schemas *)

\* Field(min_length=1, max_length=200) of title
TitleLengthOk(v) == StrLen(v) >= TitleMinLen /\ StrLen(v) <= TitleMaxLen

\* a validator that looks for the empty string alone
TitleNotEmptyString(v) == v # <<>>

\* title_must_not_be_empty: raises unless the title has a non-whitespace part
TitleNotEmpty(v) == ~(v = <<>> \/ Strip(v) = <<>>)

TitleOk(v) == TitleLengthOk(v) /\ TitleNotEmpty(v)

\* Field(max_length=1000) of description
DescriptionOk(v) == StrLen(v) <= DescMaxLen

\* Field(ge=0, le=5): a lower bound that is off by one
PriorityOkFromZero(v) == v >= 0 /\ v <= PriorityMax

\* Field(ge=1, le=5) of priority
PriorityOk(v) == v >= PriorityMin /\ v <= PriorityMax

StatusOk(v) == v \in TodoStatus

\* Whether TodoCreate accepts the body: title is required, description may be
\* null, status and priority may be left out but not null.
TodoCreateValid(body) ==
    /\ Has(body, "title") /\ body["title"] # None /\ TitleOk(body["title"][1])
    /\ (Has(body, "description") /\ body["description"] # None)
           => DescriptionOk(body["description"][1])
    /\ Has(body, "status")
           => (body["status"] # None /\ StatusOk(body["status"][1]))
    /\ Has(body, "priority")
           => (body["priority"] # None /\ PriorityOk(body["priority"][1]))

\* TodoCreate with a validator that checks the title and returns it as it came
TodoCreateUnstripped(body) ==
    [title       |-> body["title"][1],
     description |-> IF Has(body, "description") THEN body["description"] ELSE None,
     status      |-> IF Has(body, "status") THEN body["status"][1] ELSE DefaultStatus,
     priority    |-> IF Has(body, "priority") THEN body["priority"][1]
                                               ELSE DefaultPriority]

\* The TodoCreate object of an accepted body: title stripped, defaults filled in.
TodoCreate(body) ==
    [title       |-> Strip(body["title"][1]),
     description |-> IF Has(body, "description") THEN body["description"] ELSE None,
     status      |-> IF Has(body, "status") THEN body["status"][1] ELSE DefaultStatus,
     priority    |-> IF Has(body, "priority") THEN body["priority"][1]
                                               ELSE DefaultPriority]

\* TodoUpdate as a schema without constraints or validator
TodoUpdateAcceptsAll(body) == TRUE

\* Whether TodoUpdate accepts the body: every field optional and nullable.
TodoUpdateValid(body) ==
    /\ (Has(body, "title") /\ body["title"] # None) => TitleOk(body["title"][1])
    /\ (Has(body, "description") /\ body["description"] # None)
           => DescriptionOk(body["description"][1])
    /\ (Has(body, "status") /\ body["status"] # None) => StatusOk(body["status"][1])
    /\ (Has(body, "priority") /\ body["priority"] # None)
           => PriorityOk(body["priority"][1])

\* The TodoUpdate object of an accepted body, as model_dump(exclude_unset=True)
\* gives it: the fields that were set, the title stripped.
TodoUpdate(body) ==
    [f \in DOMAIN body |->
        IF f = "title" /\ body[f] # None THEN Some(Strip(body[f][1])) ELSE body[f]]

-----------------------------------------------------------------------------
(* database.py: TodoDatabase *)

\* The keys of the dict
Keys(t) == {t[i]["id"] : i \in DOMAIN t}

IndexOf(t, id) == CHOOSE i \in DOMAIN t : t[i]["id"] = id

\* self._todos[id] = rec: a key already present keeps its place in the dict
DictSet(t, id, rec) ==
    IF id \in Keys(t) THEN [t EXCEPT ![IndexOf(t, id)] = rec] ELSE Append(t, rec)

\* del self._todos[id]
DictDel(t, id) == SelectSeq(t, LAMBDA r : r["id"] # id)

\* _generate_id: "todo-" and the first 8 hex digits of a random uuid4.  Nothing
\* relates the token to the keys of the dict: it is any token of the space.
GenerateId(space) == space

\* A method that changes the dict and returns a value is the pair of the dict
\* after the call and the value returned.
Call(t, ret) == [todos |-> t, ret |-> ret]

\* the dict create builds
TodoData(todo, id, now) ==
    [id          |-> id,
     title       |-> todo["title"],
     description |-> todo["description"],
     status      |-> todo["status"],
     priority    |-> todo["priority"],
     created_at  |-> now,
     updated_at  |-> now]

DbCreate(t, todo, id, now) ==
    Call(DictSet(t, id, TodoData(todo, id, now)), Some(TodoData(todo, id, now)))

DbGet(t, id) == IF id \in Keys(t) THEN Some(t[IndexOf(t, id)]) ELSE None

\* the key of get_all's sort: (-priority, created_at)
SortKeyLess(a, b) ==
    \/ -a["priority"] < -b["priority"]
    \/ a["priority"] = b["priority"] /\ a["created_at"] < b["created_at"]

\* x put behind every element of the sorted s that is not greater than it
RECURSIVE InsertSorted(_, _)
InsertSorted(x, s) ==
    IF s = <<>> THEN <<x>>
    ELSE IF SortKeyLess(x, Head(s)) THEN <<x>> \o s
    ELSE <<Head(s)>> \o InsertSorted(x, Tail(s))

\* list.sort(key=...): a stable sort
RECURSIVE StableSort(_)
StableSort(s) ==
    IF s = <<>> THEN <<>>
    ELSE InsertSorted(s[Len(s)], StableSort(SubSeq(s, 1, Len(s) - 1)))

\* `if status:` and `if priority:` test truthiness: None means no filter, and so
\* does a priority of 0 (no member of TodoStatus is the empty string)
TruthyStatus(opt) == opt # None

TruthyPriority(opt) == opt # None /\ opt[1] # 0

FilterStatus(s, status) ==
    IF TruthyStatus(status) THEN SelectSeq(s, LAMBDA r : r["status"] = status[1]) ELSE s

FilterPriority(s, priority) ==
    IF TruthyPriority(priority) THEN SelectSeq(s, LAMBDA r : r["priority"] = priority[1]) ELSE s

\* get_all with `elif priority:`: the priority filter is skipped after a status filter
DbGetAllEitherFilter(t, status, priority) ==
    StableSort(IF TruthyStatus(status) THEN FilterStatus(t, status)
                                       ELSE FilterPriority(t, priority))

DbGetAll(t, status, priority) ==
    StableSort(FilterPriority(FilterStatus(t, status), priority))

\* the loop of update without its test for None: a null description is stored
ApplyFieldsNullClears(rec, upd) ==
    [f \in DOMAIN rec |->
        IF f \in DOMAIN upd /\ (upd[f] # None \/ f = "description")
        THEN (IF f = "description" THEN upd[f] ELSE upd[f][1])
        ELSE rec[f]]

\* the loop of update: a field that was set and is not None replaces the stored one
ApplyFields(rec, upd) ==
    [f \in DOMAIN rec |->
        IF f \in DOMAIN upd /\ upd[f] # None
        THEN (IF f = "description" THEN upd[f] ELSE upd[f][1])
        ELSE rec[f]]

\* update stamping datetime.min in place of datetime.now()
StampUpdatedEpoch(rec, now) == [rec EXCEPT !["updated_at"] = 0]

\* update without line 107: the record keeps the stamp it had
StampUpdatedKeeps(rec, now) == rec

StampUpdated(rec, now) == [rec EXCEPT !["updated_at"] = now]

\* update that stores the fields under the id when the id is missing (an upsert)
DbUpdateUpsert(t, id, upd, now) ==
    LET blank == [id |-> id, title |-> <<>>, description |-> None,
                  status |-> DefaultStatus, priority |-> DefaultPriority,
                  created_at |-> now, updated_at |-> now]
        todo_data == StampUpdated(ApplyFields(IF id \in Keys(t) THEN t[IndexOf(t, id)]
                                                                ELSE blank, upd), now)
    IN  Call(DictSet(t, id, todo_data), Some(todo_data))

DbUpdate(t, id, upd, now) ==
    IF id \notin Keys(t) THEN Call(t, None)
    ELSE LET todo_data == StampUpdated(ApplyFields(t[IndexOf(t, id)], upd), now)
         IN  Call([t EXCEPT ![IndexOf(t, id)] = todo_data], Some(todo_data))

\* delete that clears the dict when the id is present
DbDeleteClears(t, id) ==
    IF id \in Keys(t) THEN Call(<<>>, TRUE) ELSE Call(t, FALSE)

DbDelete(t, id) ==
    IF id \in Keys(t) THEN Call(DictDel(t, id), TRUE) ELSE Call(t, FALSE)

DbCount(t) == Len(t)

-----------------------------------------------------------------------------
(* main.py: the handlers.  resp records the request (op, id, req) and the    *)
(* response: the HTTP status code, the records of the body (one for a        *)
(* record, any number for a list, none otherwise) and the stats of a summary *)

NoId == ""

Response(op, code, id, req, out, stats) ==
    [op |-> op, code |-> code, id |-> id, req |-> req, out |-> out, stats |-> stats,
     detail |-> None]

\* raise HTTPException(status_code=500, detail=f"...{str(e)}"): the detail is
\* the handler's prefix followed by the message of the exception
ServerError(op, req, prefix, e) ==
    [Response(op, 500, NoId, req, <<>>, None) EXCEPT !["detail"] = Some(<<prefix, e>>)]

\* datetime.now(): the tick the clock shows, which never runs backwards and may
\* not have moved since it was last read
ReadClock(now) == now \in {clock, clock + 1} /\ now <= MaxClock

\* POST /todos
CreateTodo(body, id, now) ==
    IF ~TodoCreateValid(body)
    THEN /\ resp' = Response("create", 422, NoId, body, <<>>, None)
         /\ UNCHANGED <<todos, clock>>
    ELSE LET new_todo == DbCreate(todos, TodoCreate(body), id, now)
         IN  /\ ReadClock(now)
             /\ todos' = new_todo.todos
             /\ clock' = now
             /\ resp' = Response("create", 201, new_todo.ret[1]["id"], body,
                                 new_todo.ret, None)

\* POST /todos when db.create raises e before it stores the record
CreateTodoRaises(body, e) ==
    /\ TodoCreateValid(body)
    /\ resp' = ServerError("create", body, "Failed to create TODO: ", e)
    /\ UNCHANGED <<todos, clock>>

\* Query(None, alias="status") and Query(None, ge=1, le=5)
QueryValid(status, priority) ==
    /\ status # None => StatusOk(status[1])
    /\ priority # None => PriorityOk(priority[1])

\* GET /todos with the sort done on the store itself: the dict is left in the
\* order of the answer
GetTodosSortsStore(status, priority) ==
    /\ resp' = IF ~QueryValid(status, priority)
               THEN Response("list", 422, NoId,
                             [status |-> status, priority |-> priority], <<>>, None)
               ELSE Response("list", 200, NoId,
                             [status |-> status, priority |-> priority],
                             DbGetAll(todos, status, priority), None)
    /\ todos' = DbGetAll(todos, None, None)
    /\ UNCHANGED clock

\* GET /todos
GetTodos(status, priority) ==
    /\ resp' = IF ~QueryValid(status, priority)
               THEN Response("list", 422, NoId,
                             [status |-> status, priority |-> priority], <<>>, None)
               ELSE Response("list", 200, NoId,
                             [status |-> status, priority |-> priority],
                             DbGetAll(todos, status, priority), None)
    /\ UNCHANGED <<todos, clock>>

\* GET /todos when db.get_all raises e
GetTodosRaises(status, priority, e) ==
    /\ QueryValid(status, priority)
    /\ resp' = ServerError("list", [status |-> status, priority |-> priority],
                           "Failed to retrieve TODOs: ", e)
    /\ UNCHANGED <<todos, clock>>

\* GET /todos/{todo_id}
GetTodo(id) ==
    /\ resp' = IF DbGet(todos, id) = None
               THEN Response("get", 404, id, <<>>, <<>>, None)
               ELSE Response("get", 200, id, <<>>, DbGet(todos, id), None)
    /\ UNCHANGED <<todos, clock>>

\* PUT /todos/{todo_id}
UpdateTodo(id, body, now) ==
    IF ~TodoUpdateValid(body)
    THEN /\ resp' = Response("update", 422, id, body, <<>>, None)
         /\ UNCHANGED <<todos, clock>>
    ELSE LET updated_todo == DbUpdate(todos, id, TodoUpdate(body), now)
         IN  /\ ReadClock(now)
             /\ todos' = updated_todo.todos
             /\ IF updated_todo.ret = None
                THEN /\ resp' = Response("update", 404, id, body, <<>>, None)
                     /\ UNCHANGED clock
                ELSE /\ resp' = Response("update", 200, id, body, updated_todo.ret, None)
                     /\ clock' = now

\* DELETE /todos/{todo_id}
DeleteTodo(id) ==
    LET deleted == DbDelete(todos, id)
    IN  /\ todos' = deleted.todos
        /\ resp' = Response("delete", IF deleted.ret THEN 204 ELSE 404, id,
                            <<>>, <<>>, None)
        /\ UNCHANGED clock

\* str(priority) of a one-digit integer
Digits == <<"0", "1", "2", "3", "4", "5", "6", "7", "8", "9">>
StrInt(p) == Digits[p + 1]

\* range(1, 6)
StatsRange == 1..5

\* get_stats with range(1, 5): the bucket of the highest priority is never made
StatsFourBuckets(all_todos) ==
    [total       |-> Len(all_todos),
     by_status   |-> [st \in TodoStatus |->
                         Len(SelectSeq(all_todos, LAMBDA r : r["status"] = st))],
     by_priority |-> [k \in {StrInt(p) : p \in 1..4} |->
                         Len(SelectSeq(all_todos, LAMBDA r : StrInt(r["priority"]) = k))]]

\* the body of get_stats, computed from the unfiltered list
Stats(all_todos) ==
    [total       |-> Len(all_todos),
     by_status   |-> [st \in TodoStatus |->
                         Len(SelectSeq(all_todos, LAMBDA r : r["status"] = st))],
     by_priority |-> [k \in {StrInt(p) : p \in StatsRange} |->
                         LET priority == CHOOSE p \in StatsRange : StrInt(p) = k
                         IN  Len(SelectSeq(all_todos, LAMBDA r : r["priority"] = priority))]]

\* GET /todos/stats/summary
GetStats ==
    /\ resp' = Response("stats", 200, NoId, <<>>, <<>>,
                        Some(Stats(DbGetAll(todos, None, None))))
    /\ UNCHANGED <<todos, clock>>

\* GET /health
HealthCheck ==
    /\ resp' = Response("health", 200, NoId, <<>>, <<>>,
                        Some([status |-> "healthy", total_todos |-> DbCount(todos)]))
    /\ UNCHANGED <<todos, clock>>

-----------------------------------------------------------------------------
(* The requests the model sends *)

\* the tokens _generate_id returns and requests name
TodoIds == {"todo-0000000a", "todo-0000000b"}

Ticks == 0..MaxClock

TitleA == Str("a", 1)
TitlePadded == Str(" ", 1) \o Str("a", 1) \o Str(" ", 2)
TitleBlank == Str(" ", 2)
TitleEmpty == <<>>
TitleLongest == Str("b", TitleMaxLen)
TitleTooLong == Str("b", TitleMaxLen + 1)
TitlePaddedTooLong == Str(" ", 1) \o Str("b", TitleMaxLen)

DescD == Str("d", 1)
DescTooLong == Str("d", DescMaxLen + 1)

BodyMinimal == [title |-> Some(TitleA)]

BodyFull ==
    [title |-> Some(TitlePadded), description |-> Some(DescD),
     status |-> Some("in_progress"), priority |-> Some(5)]

BodyBlankTitle == [title |-> Some(TitleBlank), priority |-> Some(5)]

TitlePaddedB == Str(" ", 1) \o Str("b", 1) \o Str(" ", 1)

UpdateStatus == [status |-> Some("completed")]

UpdateTitleNullDescription ==
    [title |-> Some(TitlePaddedB), description |-> None, priority |-> Some(1)]

\* a description that is the empty string: not None, so update stores it
UpdateEmptyDescription == [description |-> Some(<<>>)]

BodyUrgentDone == [title |-> Some(TitleA), status |-> Some("completed"), priority |-> Some(5)]

Init ==
    /\ todos = <<>>
    /\ clock = 0
    /\ resp = Response("none", 0, NoId, <<>>, <<>>, None)
    /\ inflight = None

-----------------------------------------------------------------------------
(* Spec: the life of records.  Two ids, two kinds of record, every handler.  *)

CreateBodies == {BodyMinimal, BodyFull, BodyBlankTitle}

UpdateBodies == {<<>>, [status |-> Some("completed")], [title |-> Some(TitleBlank)]}

Next ==
    \/ \E body \in CreateBodies, id \in GenerateId(TodoIds), now \in Ticks :
           CreateTodo(body, id, now) /\ UNCHANGED inflight
    \/ GetTodos(None, None) /\ UNCHANGED inflight
    \/ \E id \in TodoIds : GetTodo(id) /\ UNCHANGED inflight
    \/ \E id \in TodoIds, body \in UpdateBodies, now \in Ticks :
           UpdateTodo(id, body, now) /\ UNCHANGED inflight
    \/ \E id \in TodoIds : DeleteTodo(id) /\ UNCHANGED inflight
    \/ GetStats /\ UNCHANGED inflight
    \/ HealthCheck /\ UNCHANGED inflight

Spec == Init /\ [][Next]_vars

-----------------------------------------------------------------------------
(* SpecValidation: titles of every kind, in creates and in updates *)

Titles ==
    {TitleA, TitlePadded, TitleBlank, TitleEmpty, TitleLongest, TitleTooLong,
     TitlePaddedTooLong}

ValidationCreateBodies ==
    {[title |-> Some(t)] : t \in Titles} \cup {<<>>, [title |-> None], BodyBlankTitle}

ValidationUpdateBodies ==
    {[title |-> Some(t)] : t \in Titles}
        \cup {<<>>, [title |-> None], [title |-> Some(TitleBlank), status |-> Some("completed")]}

NextValidation ==
    \/ \E body \in ValidationCreateBodies, id \in GenerateId(TodoIds), now \in Ticks :
           CreateTodo(body, id, now) /\ UNCHANGED inflight
    \/ \E id \in TodoIds, body \in ValidationUpdateBodies, now \in Ticks :
           UpdateTodo(id, body, now) /\ UNCHANGED inflight
    \/ \E id \in TodoIds : GetTodo(id) /\ UNCHANGED inflight
    \/ \E id \in TodoIds : DeleteTodo(id) /\ UNCHANGED inflight

SpecValidation == Init /\ [][NextValidation]_vars

-----------------------------------------------------------------------------
(* SpecSchema: bodies at and beyond every limit of the schemas *)

PriorityInputs == {0, 1, 5, 6}

SchemaCreateBodies ==
    {[title |-> Some(TitleA), priority |-> Some(p)] : p \in PriorityInputs}
        \cup { [title |-> Some(TitleLongest)],
               [title |-> Some(TitleTooLong)],
               [title |-> Some(TitleBlank)],
               [title |-> Some(TitleA), status |-> Some("done")],
               [title |-> Some(TitleA), description |-> Some(DescTooLong)] }

SchemaUpdateBodies ==
    {[priority |-> Some(p)] : p \in PriorityInputs}
        \cup { [title |-> Some(TitleLongest)],
               [title |-> Some(TitleTooLong)],
               [title |-> Some(TitleBlank), priority |-> Some(5)],
               [status |-> Some("done")],
               [description |-> Some(DescTooLong)] }

NextSchema ==
    \/ \E body \in SchemaCreateBodies, id \in GenerateId(TodoIds), now \in Ticks :
           CreateTodo(body, id, now) /\ UNCHANGED inflight
    \/ \E id \in TodoIds, body \in SchemaUpdateBodies, now \in Ticks :
           UpdateTodo(id, body, now) /\ UNCHANGED inflight
    \/ \E id \in TodoIds : DeleteTodo(id) /\ UNCHANGED inflight

SpecSchema == Init /\ [][NextSchema]_vars

-----------------------------------------------------------------------------
(* SpecFault: requests during which the store raises an exception *)

\* str(e) of the exceptions raised inside the store
ExceptionMessages == {"out of memory", "'dict' object has no attribute '_todos'"}

FaultCreateBodies == {BodyMinimal, BodyUrgentDone}

NextFault ==
    \/ \E body \in FaultCreateBodies, id \in GenerateId(TodoIds), now \in Ticks :
           CreateTodo(body, id, now) /\ UNCHANGED inflight
    \/ \E body \in FaultCreateBodies, e \in ExceptionMessages :
           CreateTodoRaises(body, e) /\ UNCHANGED inflight
    \/ \E st \in {None, Some("completed")} :
           GetTodos(st, None) /\ UNCHANGED inflight
    \/ \E st \in {None, Some("completed")}, e \in ExceptionMessages :
           GetTodosRaises(st, None, e) /\ UNCHANGED inflight
    \/ \E id \in TodoIds : DeleteTodo(id) /\ UNCHANGED inflight

SpecFault == Init /\ [][NextFault]_vars

-----------------------------------------------------------------------------
(* SpecReads: every read of the API between writes *)

ReadsCreateBodies == {BodyMinimal, BodyUrgentDone}

ReadsStatusFilters == {None, Some("completed")}

ReadsPriorityFilters == {None, Some(5), Some(0)}

NextReads ==
    \/ \E body \in ReadsCreateBodies, id \in GenerateId(TodoIds), now \in Ticks :
           CreateTodo(body, id, now) /\ UNCHANGED inflight
    \/ \E id \in TodoIds, now \in Ticks :
           UpdateTodo(id, UpdateStatus, now) /\ UNCHANGED inflight
    \/ \E id \in TodoIds : DeleteTodo(id) /\ UNCHANGED inflight
    \/ \E st \in ReadsStatusFilters, pr \in ReadsPriorityFilters :
           GetTodos(st, pr) /\ UNCHANGED inflight
    \/ \E id \in TodoIds : GetTodo(id) /\ UNCHANGED inflight
    \/ GetStats /\ UNCHANGED inflight
    \/ HealthCheck /\ UNCHANGED inflight

SpecReads == Init /\ [][NextReads]_vars

-----------------------------------------------------------------------------
(* SpecUpdate: partial updates of records that have every field set *)

PartialUpdateBodies ==
    {<<>>, UpdateStatus, UpdateTitleNullDescription, UpdateEmptyDescription}

NextUpdate ==
    \/ \E id \in GenerateId(TodoIds), now \in Ticks :
           CreateTodo(BodyFull, id, now) /\ UNCHANGED inflight
    \/ \E id \in TodoIds, body \in PartialUpdateBodies, now \in Ticks :
           UpdateTodo(id, body, now) /\ UNCHANGED inflight
    \/ \E id \in TodoIds : GetTodo(id) /\ UNCHANGED inflight
    \/ \E id \in TodoIds : DeleteTodo(id) /\ UNCHANGED inflight

SpecUpdate == Init /\ [][NextUpdate]_vars

-----------------------------------------------------------------------------
(* SpecList: records of two priorities and two statuses, listed under every  *)
(* pair of filters                                                           *)

ListCreateBodies == {BodyMinimal, BodyUrgentDone}

ListUpdateBodies == {UpdateStatus, [priority |-> Some(5)]}

StatusFilters == {None, Some("pending"), Some("completed"), Some("done")}

PriorityFilters == {None, Some(1), Some(5), Some(0)}

NextList ==
    \/ \E body \in ListCreateBodies, id \in GenerateId(TodoIds), now \in Ticks :
           CreateTodo(body, id, now) /\ UNCHANGED inflight
    \/ \E id \in TodoIds, body \in ListUpdateBodies, now \in Ticks :
           UpdateTodo(id, body, now) /\ UNCHANGED inflight
    \/ \E id \in TodoIds : DeleteTodo(id) /\ UNCHANGED inflight
    \/ \E st \in StatusFilters, pr \in PriorityFilters :
           GetTodos(st, pr) /\ UNCHANGED inflight

SpecList == Init /\ [][NextList]_vars

-----------------------------------------------------------------------------
(* SpecConcurrent: handlers dispatched on threads.  One thread is inside     *)
(* TodoDatabase.update, which holds no lock: it looks the dict of the record *)
(* up, assigns the fields of the update to it one by one, stamps it and      *)
(* returns.  Between two of its steps other threads answer whole requests.   *)
(* inflight holds that call: the request, the fields still to assign, the    *)
(* dict it writes to, and whether that dict is still the one in the store.   *)

\* the order model_dump lists the fields in
FieldOrder == <<"title", "description", "status", "priority">>

UpdateTwoFields == [status |-> Some("completed"), priority |-> Some(5)]

ConcurrentUpdateBodies == {UpdateStatus, UpdateTwoFields}

\* update up to the loop: the membership test, the lookup, model_dump
UpdateEnter(id, body) ==
    /\ inflight = None
    /\ TodoUpdateValid(body)
    /\ id \in Keys(todos)
    /\ inflight' = Some([id        |-> id,
                         req       |-> body,
                         upd       |-> TodoUpdate(body),
                         fields    |-> SelectSeq(FieldOrder, LAMBDA f : f \in DOMAIN body),
                         todo_data |-> todos[IndexOf(todos, id)],
                         before    |-> todos[IndexOf(todos, id)],
                         shared    |-> TRUE])
    /\ UNCHANGED <<todos, clock, resp>>

\* one turn of the loop: the next field is assigned unless it is None
UpdateAssign ==
    /\ inflight # None
    /\ inflight[1].fields # <<>>
    /\ LET call == inflight[1]
           f == Head(call.fields)
           todo_data == ApplyFields(call.todo_data, [g \in {f} |-> call.upd[g]])
       IN  /\ inflight' = Some([call EXCEPT !.fields = Tail(@), !.todo_data = todo_data])
           /\ todos' = IF call.shared
                        THEN [todos EXCEPT ![IndexOf(todos, call.id)] = todo_data]
                        ELSE todos
    /\ UNCHANGED <<clock, resp>>

\* after the loop: the stamp, the return, and the handler's response
UpdateReturn(now) ==
    /\ inflight # None
    /\ inflight[1].fields = <<>>
    /\ ReadClock(now)
    /\ LET call == inflight[1]
           todo_data == StampUpdated(call.todo_data, now)
       IN  /\ todos' = IF call.shared
                        THEN [todos EXCEPT ![IndexOf(todos, call.id)] = todo_data]
                        ELSE todos
           /\ resp' = Response("update", 200, call.id, call.req, Some(todo_data), None)
    /\ clock' = now
    /\ inflight' = None

\* a create or a delete of the id puts another dict, or none, under the key:
\* the dict the call writes to is no longer in the store
Unshare(id) ==
    IF inflight # None /\ inflight[1].id = id
    THEN Some([inflight[1] EXCEPT !.shared = FALSE])
    ELSE inflight

NextConcurrent ==
    \/ \E id \in TodoIds, body \in ConcurrentUpdateBodies : UpdateEnter(id, body)
    \/ UpdateAssign
    \/ \E now \in Ticks : UpdateReturn(now)
    \/ \E id \in GenerateId(TodoIds), now \in Ticks :
           CreateTodo(BodyMinimal, id, now) /\ inflight' = Unshare(id)
    \/ \E id \in TodoIds :
           DeleteTodo(id) /\ inflight' = IF id \in Keys(todos) THEN Unshare(id) ELSE inflight
    \/ \E id \in TodoIds : GetTodo(id) /\ UNCHANGED inflight
    \/ GetTodos(None, None) /\ UNCHANGED inflight

SpecConcurrent == Init /\ [][NextConcurrent]_vars

-----------------------------------------------------------------------------
(* Properties of Spec.  In an action property, resp' is the request the step *)
(* handles and its response, todos the store before it, todos' after it.     *)

\* C1: a create that is accepted, followed at once by a get of the id it
\* returned, gives 200 and one record: that id, the title of the request
\* stripped, its description (None if left out), its status (pending if left
\* out), its priority (1 if left out), and two timestamps that are equal.
C1_CreateThenGet ==
    [][ (resp.op = "create" /\ resp.code = 201 /\ resp'.op = "get" /\ resp'.id = resp.id)
        => /\ resp'.code = 200
           /\ Len(resp'.out) = 1
           /\ LET got == resp'.out[1]
                  req == resp.req
              IN  /\ got["id"] = resp.id /\ got["id"] # NoId
                  /\ got["title"] = Strip(req["title"][1])
                  /\ got["description"] =
                        (IF Has(req, "description") THEN req["description"] ELSE None)
                  /\ got["status"] =
                        (IF Has(req, "status") THEN req["status"][1] ELSE "pending")
                  /\ got["priority"] =
                        (IF Has(req, "priority") THEN req["priority"][1] ELSE 1)
                  /\ got["created_at"] \in Ticks
                  /\ got["created_at"] = got["updated_at"] ]_vars

\* a get returned the record of a create whose title was padded and whose
\* fields were all given, another record being in the store
C1_Witness ==
    /\ resp.op = "get" /\ resp.code = 200
    /\ resp.out[1]["title"] = TitleA /\ resp.out[1]["description"] = Some(DescD)
    /\ resp.out[1]["created_at"] = resp.out[1]["updated_at"]
    /\ Len(todos) = 2

\* C5: once a delete of an id has succeeded the id is gone for good.  Stated
\* for the first request after the delete: whatever it is, it leaves the id
\* out of the store; if it is a get, update or delete of the id it gets 404,
\* and if it is a list the id is not in it.
C5_DeletedIdStaysGone ==
    [][ (resp.op = "delete" /\ resp.code = 204)
        => /\ resp.id \notin Keys(todos')
           /\ (resp'.id = resp.id /\ resp'.op \in {"get", "delete"}) => resp'.code = 404
           /\ (resp'.id = resp.id /\ resp'.op = "update") => resp'.code \in {404, 422}
           /\ resp'.op = "list"
                 => \A i \in DOMAIN resp'.out : resp'.out[i]["id"] # resp.id ]_vars

\* C6: a create with a valid body gets 201, its id is the id of no record of
\* the store before it, the store has one record more, and every record of the
\* store before it is still there with the same fields.
C6_CreateAddsOneFreshRecord ==
    [][ (resp'.op = "create" /\ TodoCreateValid(resp'.req))
        => /\ resp'.code = 201
           /\ resp'.id \notin Keys(todos)
           /\ Len(todos') = Len(todos) + 1
           /\ \A i \in DOMAIN todos : DbGet(todos', todos[i]["id"]) = Some(todos[i]) ]_vars

\* C8: an update with a valid body of an id that is not in the store gets 404
\* with no record, and the store and the clock are as before.
C8_UpdateOfAbsentId ==
    [][ (resp'.op = "update" /\ resp'.id \notin Keys(todos) /\ TodoUpdateValid(resp'.req))
        => /\ resp'.code = 404
           /\ resp'.out = <<>>
           /\ todos' = todos
           /\ clock' = clock ]_vars

\* an update of an absent id was answered 404 while another record was live
C8_Witness ==
    /\ resp.op = "update" /\ resp.code = 404
    /\ resp.id \notin Keys(todos)
    /\ Len(todos) = 1

\* C9: a delete of a live id gets 204, the id is no longer in the store, the
\* store has one record less and every other record is as before; a delete of
\* an id that is not live gets 404 and the store is as before.
C9_Delete ==
    [][ resp'.op = "delete"
        => IF resp'.id \in Keys(todos)
           THEN /\ resp'.code = 204
                /\ resp'.id \notin Keys(todos')
                /\ Len(todos') = Len(todos) - 1
                /\ \A i \in DOMAIN todos :
                      todos[i]["id"] # resp'.id
                          => DbGet(todos', todos[i]["id"]) = Some(todos[i])
           ELSE /\ resp'.code = 404
                /\ todos' = todos ]_vars

\* a delete succeeded and left the other record in the store
C9_Witness ==
    /\ resp.op = "delete" /\ resp.code = 204
    /\ Len(todos) = 1
    /\ resp.id \notin Keys(todos)

-----------------------------------------------------------------------------
(* Properties of SpecValidation *)

\* C10: a create or an update whose title is empty or all whitespace gets 422,
\* and the store (every record, its updated_at too) and the clock are as
\* before.
C10_BlankTitleRejected ==
    [][ ( /\ resp'.op \in {"create", "update"}
          /\ Has(resp'.req, "title")
          /\ resp'.req["title"] # None
          /\ \A i \in DOMAIN resp'.req["title"][1] :
                 resp'.req["title"][1][i].ch = " " )
        => /\ resp'.code = 422
           /\ todos' = todos
           /\ clock' = clock ]_vars

\* an update of a live record with a title of two spaces was answered 422
C10_Witness ==
    /\ resp.op = "update" /\ resp.code = 422
    /\ resp.req = [title |-> Some(TitleBlank)]
    /\ resp.id \in Keys(todos)
    /\ Len(todos) = 2

-----------------------------------------------------------------------------
(* Properties of SpecUpdate *)

\* C4 as it is written: after an update answered 200, each of title,
\* description, status, priority that the body gives a value other than null
\* has exactly that value, each other field, the id and created_at are as
\* before, and every other record of the store is as before.
C4_UpdateTakesSuppliedValues ==
    [][ (resp'.op = "update" /\ resp'.code = 200)
        => LET id == resp'.id
               req == resp'.req
               old == DbGet(todos, id)[1]
               new == DbGet(todos', id)[1]
               Given(f) == Has(req, f) /\ req[f] # None
           IN  /\ id \in Keys(todos)
               /\ new["title"] = (IF Given("title") THEN req["title"][1] ELSE old["title"])
               /\ new["description"] =
                     (IF Given("description") THEN req["description"] ELSE old["description"])
               /\ new["status"] = (IF Given("status") THEN req["status"][1] ELSE old["status"])
               /\ new["priority"] =
                     (IF Given("priority") THEN req["priority"][1] ELSE old["priority"])
               /\ new["id"] = old["id"]
               /\ new["created_at"] = old["created_at"]
               /\ Len(todos') = Len(todos)
               /\ \A i \in DOMAIN todos : todos[i]["id"] # id => todos'[i] = todos[i] ]_vars

\* C4 amended: the same, but a title that is given is stored with the
\* whitespace around it stripped.
C4_UpdateFrame ==
    [][ (resp'.op = "update" /\ resp'.code = 200)
        => LET id == resp'.id
               req == resp'.req
               old == DbGet(todos, id)[1]
               new == DbGet(todos', id)[1]
               Given(f) == Has(req, f) /\ req[f] # None
           IN  /\ id \in Keys(todos)
               /\ new["title"] =
                     (IF Given("title") THEN Strip(req["title"][1]) ELSE old["title"])
               /\ new["description"] =
                     (IF Given("description") THEN req["description"] ELSE old["description"])
               /\ new["status"] = (IF Given("status") THEN req["status"][1] ELSE old["status"])
               /\ new["priority"] =
                     (IF Given("priority") THEN req["priority"][1] ELSE old["priority"])
               /\ new["id"] = old["id"]
               /\ new["created_at"] = old["created_at"]
               /\ Len(todos') = Len(todos)
               /\ \A i \in DOMAIN todos : todos[i]["id"] # id => todos'[i] = todos[i] ]_vars

\* an update that gave a title and a priority and a null description was
\* answered 200: title and priority changed, description and status did not,
\* and another record is in the store
C4_Witness ==
    /\ resp.op = "update" /\ resp.code = 200
    /\ resp.req = UpdateTitleNullDescription
    /\ resp.out[1]["title"] = Str("b", 1)
    /\ resp.out[1]["priority"] = 1
    /\ resp.out[1]["description"] = Some(DescD)
    /\ resp.out[1]["status"] = "in_progress"
    /\ Len(todos) = 2

-----------------------------------------------------------------------------
(* Properties of SpecList *)

\* C2: under every pair of filters the list is in descending order of
\* priority, and records of equal priority are in the order they were created.
\* The second half is stated for the step that creates a record: being the
\* last one created, it is listed behind every record of its priority.
C2_ListOrder ==
    [][ \A st \in {None, Some("pending"), Some("completed")}, pr \in {None, Some(1), Some(5)} :
          LET list == DbGetAll(todos', st, pr)
          IN  /\ \A i, j \in DOMAIN list :
                    i < j => list[i]["priority"] >= list[j]["priority"]
              /\ (resp'.op = "create" /\ resp'.code = 201)
                    => \A i, j \in DOMAIN list :
                          ( /\ list[i]["id"] = resp'.id
                            /\ j # i
                            /\ list[j]["priority"] = list[i]["priority"] ) => j < i ]_vars

\* C3: a list answered 200 is the unfiltered list with the records that do not
\* match a given filter left out: it holds every record of the store that
\* matches both filters, nothing else, and no record twice.
C3_ListFilters ==
    (resp.op = "list" /\ resp.code = 200)
        => LET st == resp.req["status"]
               pr == resp.req["priority"]
               Match(r) == /\ st # None => r["status"] = st[1]
                           /\ pr # None => r["priority"] = pr[1]
               listed == {resp.out[i] : i \in DOMAIN resp.out}
           IN  /\ resp.out = SelectSeq(DbGetAll(todos, None, None), Match)
               /\ listed = {r \in {todos[i] : i \in DOMAIN todos} : Match(r)}
               /\ Cardinality({r["id"] : r \in listed}) = Len(resp.out)

\* a list under a status filter and a priority filter returned one of the two
\* records of the store, the other matching the status filter alone
C3_Witness ==
    /\ resp.op = "list" /\ resp.code = 200
    /\ resp.req = [status |-> Some("completed"), priority |-> Some(5)]
    /\ Len(resp.out) = 1
    /\ Len(todos) = 2
    /\ \A i \in DOMAIN todos : todos[i]["status"] = "completed"

-----------------------------------------------------------------------------
(* Properties of SpecConcurrent *)

-----------------------------------------------------------------------------
(* Properties of SpecSchema *)

\* C11: a create or an update that gives a priority p gets 422, with the store
\* and the clock as before, when p < 1 or p > 5; when 1 <= p <= 5 and the rest
\* of the body is valid it is not answered 422, and the record it returns has
\* priority p.
C11_PriorityRange ==
    [][ ( /\ resp'.op \in {"create", "update"}
          /\ Has(resp'.req, "priority")
          /\ resp'.req["priority"] # None )
        => LET p == resp'.req["priority"][1]
               rest == [resp'.req EXCEPT !["priority"] = Some(1)]
               RestValid == IF resp'.op = "create" THEN TodoCreateValid(rest)
                                                   ELSE TodoUpdateValid(rest)
           IN  IF p < 1 \/ p > 5
               THEN /\ resp'.code = 422
                    /\ todos' = todos
                    /\ clock' = clock
               ELSE RestValid
                       => /\ resp'.code \in (IF resp'.op = "create" THEN {201} ELSE {200, 404})
                          /\ resp'.code # 404 => resp'.out[1]["priority"] = p ]_vars

\* an update to priority 6 was answered 422 on a record that had been given
\* priority 5, after its creation with priority 1
C11_Witness ==
    /\ resp.op = "update" /\ resp.code = 422
    /\ resp.req = [priority |-> Some(6)]
    /\ resp.id \in Keys(todos)
    /\ LET rec == DbGet(todos, resp.id)[1]
       IN  rec["priority"] = 5 /\ rec["updated_at"] > rec["created_at"]

-----------------------------------------------------------------------------
(* Properties of the statistics, under Spec *)

\* C12: whenever the stats summary has just been answered, its total is the
\* number of live records, by_status has exactly the buckets pending,
\* in_progress and completed, by_priority has exactly the buckets "1".."5",
\* every bucket is the number of live records with that value (zero when there
\* is none), and the status buckets and the priority buckets each sum to total.
C12_Stats ==
    resp.op = "stats"
        => LET st == resp.stats[1]
               Live == 1..Len(todos)
               WithStatus(v) == Cardinality({i \in Live : todos[i]["status"] = v})
               WithPriority(v) == Cardinality({i \in Live : todos[i]["priority"] = v})
           IN  /\ resp.code = 200
               /\ st["total"] = Len(todos)
               /\ DOMAIN st["by_status"] = {"pending", "in_progress", "completed"}
               /\ DOMAIN st["by_priority"] = {"1", "2", "3", "4", "5"}
               /\ st["by_status"]["pending"] = WithStatus("pending")
               /\ st["by_status"]["in_progress"] = WithStatus("in_progress")
               /\ st["by_status"]["completed"] = WithStatus("completed")
               /\ st["by_priority"]["1"] = WithPriority(1)
               /\ st["by_priority"]["2"] = WithPriority(2)
               /\ st["by_priority"]["3"] = WithPriority(3)
               /\ st["by_priority"]["4"] = WithPriority(4)
               /\ st["by_priority"]["5"] = WithPriority(5)
               /\ st["by_status"]["pending"] + st["by_status"]["in_progress"]
                      + st["by_status"]["completed"] = st["total"]
               /\ st["by_priority"]["1"] + st["by_priority"]["2"] + st["by_priority"]["3"]
                      + st["by_priority"]["4"] + st["by_priority"]["5"] = st["total"]

\* the summary of a store of two records that differ in status and in
\* priority: two buckets of each kind hold one, the others are zero
C12_Witness ==
    /\ resp.op = "stats"
    /\ Len(todos) = 2
    /\ resp.stats[1]["total"] = 2
    /\ resp.stats[1]["by_priority"]["5"] = 1
    /\ resp.stats[1]["by_priority"]["1"] = 1
    /\ resp.stats[1]["by_priority"]["3"] = 0
    /\ resp.stats[1]["by_status"]["completed"] = 1
    /\ resp.stats[1]["by_status"]["pending"] = 1

-----------------------------------------------------------------------------
(* Properties of the timestamps, under Spec *)

\* C13 as stated: every update answered 200 leaves the record with an
\* updated_at later than the one it had before the update.
C13_UpdateAdvances ==
    [][ (resp'.op = "update" /\ resp'.code = 200)
        => DbGet(todos', resp'.id)[1]["updated_at"]
               > DbGet(todos, resp'.id)[1]["updated_at"] ]_vars

\* C13: every update answered 200, whatever its body, stamps the record's
\* updated_at with the time read during the update; the new stamp is never
\* earlier than the old one, is later whenever the clock has moved since the
\* update began, and is the one the response returns.
C13_UpdateStamps ==
    [][ (resp'.op = "update" /\ resp'.code = 200)
        => LET old == DbGet(todos, resp'.id)[1]
               new == DbGet(todos', resp'.id)[1]
           IN  /\ new["updated_at"] = clock'
               /\ new["updated_at"] >= old["updated_at"]
               /\ clock' > clock => new["updated_at"] > old["updated_at"]
               /\ resp'.out[1]["updated_at"] = new["updated_at"] ]_vars

\* an empty update was answered 200 and the record it returned carries a
\* stamp later than its creation
C13_Witness ==
    /\ resp.op = "update" /\ resp.code = 200
    /\ resp.req = <<>>
    /\ resp.out[1]["updated_at"] > resp.out[1]["created_at"]
    /\ DbGet(todos, resp.id) = resp.out

-----------------------------------------------------------------------------
(* Properties of SpecFault *)

\* C14: two requests of the same operation with the same input, made on the
\* same store, that both end in a server error get the same response: the
\* response does not depend on the message of the exception.
C14_ServerErrorIsGeneric ==
    [][ ( /\ resp.code = 500 /\ resp'.code = 500
          /\ resp'.op = resp.op /\ resp'.req = resp.req
          /\ todos' = todos )
        => resp' = resp ]_vars

-----------------------------------------------------------------------------
(* Properties of SpecReads *)

\* C15: a step that answers get, list under any filters, the stats summary or
\* the health check (which reads count) leaves the store as it was: the same
\* records with the same fields in the same dict order, the same clock, and
\* so the same answer to every later list.
C15_ReadsArePure ==
    [][ resp'.op \in {"get", "list", "stats", "health"}
        => /\ todos' = todos
           /\ clock' = clock
           /\ \A st \in ReadsStatusFilters, pr \in ReadsPriorityFilters :
                  QueryValid(st, pr)
                      => DbGetAll(todos', st, pr) = DbGetAll(todos, st, pr) ]_vars

\* a filtered list was answered from a store of two records whose dict order
\* is not the order of the list, and the store still has that order
C15_Witness ==
    /\ resp.op = "list" /\ resp.code = 200
    /\ resp.req["status"] = Some("completed")
    /\ Len(todos) = 2
    /\ Len(resp.out) = 1
    /\ todos # DbGetAll(todos, None, None)


\* C16: across every step, a record whose id is live before and after the
\* step keeps its id and its created_at.
C16_CreatedAtFixed ==
    [][ \A id \in Keys(todos) \cap Keys(todos') :
            /\ DbGet(todos', id)[1]["id"] = id
            /\ DbGet(todos', id)[1]["created_at"] = DbGet(todos, id)[1]["created_at"] ]_vars

-----------------------------------------------------------------------------
(* Invariant of the records, under SpecSchema *)

\* C18: in every reachable state, whatever requests were accepted and
\* rejected on the way, every live record has a title of 1 to 200 characters
\* with a character that is not whitespace, a priority from 1 to 5, and a
\* status among pending, in_progress and completed.
C18_LiveRecordsValid ==
    \A i \in 1..Len(todos) :
        LET r == todos[i]
        IN  /\ StrLen(r["title"]) >= 1
            /\ StrLen(r["title"]) <= 200
            /\ \E k \in 1..Len(r["title"]) :
                   r["title"][k].ch # " " /\ r["title"][k].n >= 1
            /\ r["priority"] \in 1..5
            /\ r["status"] \in {"pending", "in_progress", "completed"}

\* an update to an unknown status has just been rejected on a store of two
\* records, one of which has a title of 200 characters and priority 5
C18_Witness ==
    /\ resp.op = "update" /\ resp.code = 422
    /\ resp.req = [status |-> Some("done")]
    /\ Len(todos) = 2
    /\ \E i \in 1..Len(todos) :
           StrLen(todos[i]["title"]) = 200 /\ todos[i]["priority"] = 5

-----------------------------------------------------------------------------
(* Null fields of an update, under SpecUpdate *)

\* C19: an update answered 200 leaves the store, and returns the record, that
\* the same update with its null fields left out would; and across every step
\* a record that stays live keeps a non-null description and a title, a
\* status and a priority that are values of their types, unless the step is a create that returned the record's
\* id, which begins another record under that id.
C19_NullIsOmitted ==
    [][ /\ (resp'.op = "update" /\ resp'.code = 200)
            => LET req == resp'.req
                   omitted == [f \in {g \in DOMAIN req : req[g] # None} |-> req[f]]
               IN  /\ TodoUpdateValid(omitted)
                   /\ Call(todos', resp'.out)
                          = DbUpdate(todos, resp'.id, TodoUpdate(omitted), clock')
        /\ \A id \in Keys(todos) \cap Keys(todos') :
               (resp'.op = "create" /\ resp'.id = id)
               \/ LET old == DbGet(todos, id)[1]
                      new == DbGet(todos', id)[1]
                  IN  /\ old["description"] # None => new["description"] # None
                      /\ StrLen(new["title"]) >= 1
                      /\ new["status"] \in {"pending", "in_progress", "completed"}
                      /\ new["priority"] \in 1..5 ]_vars

\* the only record of the store was sent an update with a null description
\* and still has the description it was created with
C19_Witness ==
    /\ resp.op = "update" /\ resp.code = 200
    /\ Has(resp.req, "description") /\ resp.req["description"] = None
    /\ Len(todos) = 1
    /\ todos[1]["id"] = resp.id
    /\ todos[1]["description"] = Some(DescD)
    /\ todos[1]["updated_at"] > todos[1]["created_at"]

=============================================================================
